---------------------------- MODULE Spec2Model ----------------------------
(***************************************************************************)
(* Model of the EDF header reader (src/src/reader.rs, src/src/error.rs).   *)
(*                                                                         *)
(* The file is a sequence of bytes with a read position.  Reader::         *)
(* read_header reads ten fixed-width fields one after the other; every     *)
(* field reader is read_exact, then (except for the version) from_utf8,    *)
(* then a parse.  A reader ends in one of three ways: it returns Ok, it    *)
(* returns Err (the ? operator hands it to the caller at once), or it      *)
(* panics (expect / unwrap / panic!).                                      *)
(***************************************************************************)
EXTENDS Integers, Sequences, FiniteSets, TLC

VARIABLES
    stream,     \* the bytes of the file (never written)
    pos,        \* the file's read position
    pc,         \* the control point of read_header: the field to read next
    locals,     \* the let-bindings of read_header made so far
    header,     \* <<>> or <<h>>: the Header returned by read_header
    outcome,    \* how read_header ended (kind "none" while it runs)
    reads       \* the read_exact calls made: <<offset, bytes asked, bytes got>>

vars == <<stream, pos, pc, locals, header, outcome, reads>>

-----------------------------------------------------------------------------
(* Bytes and characters *)

\* The ASCII codes the reader and the parsers it calls compare with.
Ch == [sp |-> 32, plus |-> 43, minus |-> 45, dot |-> 46, zero |-> 48]

IsDigit(c) == c >= 48 /\ c <= 57

\* char::is_whitespace: the code points with the White_Space property.
IsWhitespace(c) ==
    \/ c \in 9..13
    \/ c = 32
    \/ c = 133
    \/ c = 160
    \/ c = 5760
    \/ c \in 8192..8202
    \/ c \in {8232, 8233, 8239, 8287, 12288}

IsCont(b) == b >= 128 /\ b <= 191

\* The number of bytes of the UTF-8 sequence that starts at b[i], 0 when no
\* well-formed sequence starts there (core::str::from_utf8: no overlong
\* forms, no surrogates, nothing above U+10FFFF, no truncated sequence).
Utf8SeqLen(b, i) ==
    LET n == Len(b)
        b0 == b[i]
        At(k) == IF i + k <= n THEN b[i + k] ELSE 0
    IN  IF b0 < 128 THEN 1
        ELSE IF b0 >= 194 /\ b0 <= 223 THEN
            IF IsCont(At(1)) THEN 2 ELSE 0
        ELSE IF b0 >= 224 /\ b0 <= 239 THEN
            IF /\ IsCont(At(1)) /\ IsCont(At(2))
               /\ (b0 = 224 => At(1) >= 160)
               /\ (b0 = 237 => At(1) <= 159)
            THEN 3 ELSE 0
        ELSE IF b0 >= 240 /\ b0 <= 244 THEN
            IF /\ IsCont(At(1)) /\ IsCont(At(2)) /\ IsCont(At(3))
               /\ (b0 = 240 => At(1) >= 144)
               /\ (b0 = 244 => At(1) <= 143)
            THEN 4 ELSE 0
        ELSE 0

\* The code point of the well-formed sequence of k bytes at b[i].
Utf8CodePoint(b, i, k) ==
    IF k = 1 THEN b[i]
    ELSE IF k = 2 THEN (b[i] - 192) * 64 + (b[i + 1] - 128)
    ELSE IF k = 3 THEN
        (b[i] - 224) * 4096 + (b[i + 1] - 128) * 64 + (b[i + 2] - 128)
    ELSE (b[i] - 240) * 262144 + (b[i + 1] - 128) * 4096
         + (b[i + 2] - 128) * 64 + (b[i + 3] - 128)

\* core::str::from_utf8 scans the bytes from the left, one sequence after
\* the other, and fails where none starts.  That scan succeeds exactly when
\* every byte that is no continuation byte starts a well-formed sequence and
\* every continuation byte lies in the sequence that the nearest such byte
\* before it starts.
IsUtf8(b) ==
    \A i \in 1..Len(b) :
        IF IsCont(b[i])
        THEN \E d \in 1..3 :
                /\ i - d >= 1
                /\ ~IsCont(b[i - d])
                /\ \A e \in 1..(d - 1) : IsCont(b[i - e])
                /\ Utf8SeqLen(b, i - d) > d
        ELSE Utf8SeqLen(b, i) # 0

\* The chars of well-formed bytes: the code point of every sequence.
CharsOf(b) ==
    SelectSeq([i \in 1..Len(b) |->
                  IF IsCont(b[i]) THEN -1
                  ELSE Utf8CodePoint(b, i, Utf8SeqLen(b, i))],
              LAMBDA c : c >= 0)

\* String::from_utf8(buffer.to_vec()): Ok with the string's chars, or Err.
from_utf8(b) ==
    IF IsUtf8(b) THEN [ok |-> TRUE, chars |-> CharsOf(b)]
    ELSE [ok |-> FALSE, chars |-> <<>>]

\* str::trim_end: drops the trailing whitespace characters.
trim_end(s) ==
    LET kept == {i \in 1..Len(s) : ~IsWhitespace(s[i])}
    IN  SubSeq(s, 1, IF kept = {} THEN 0
                     ELSE CHOOSE i \in kept : \A j \in kept : j <= i)

\* str::trim_start, which chrono applies before every numeric item.
trim_start(s) ==
    LET kept == {i \in 1..Len(s) : ~IsWhitespace(s[i])}
    IN  SubSeq(s, IF kept = {} THEN Len(s) + 1
                  ELSE CHOOSE i \in kept : \A j \in kept : i <= j,
               Len(s))

\* The value of a string of decimal digits, -1 when a character is no digit.
DigitsValue(s) ==
    LET Value[n \in 0..Len(s)] ==
            IF n = 0 THEN 0 ELSE Value[n - 1] * 10 + (s[n] - 48)
    IN  IF \A i \in 1..Len(s) : IsDigit(s[i]) THEN Value[Len(s)] ELSE -1

\* str::parse for the integer types (core::num from_str_radix, radix 10):
\* the empty string and a lone sign are errors, '+' is accepted by every
\* type and '-' by the signed ones only, every other character must be a
\* digit, and the value must fit the type (max < 0: the type cannot
\* overflow on the at most eight characters a field holds).
ParseInt(s, signed, max) ==
    LET bad == [ok |-> FALSE, v |-> 0]
    IN  IF s = <<>> THEN bad
        ELSE IF s[1] \in {Ch.plus, Ch.minus} /\ Len(s) = 1 THEN bad
        ELSE LET neg == signed /\ s[1] = Ch.minus
                 digits == IF s[1] = Ch.plus \/ neg THEN Tail(s) ELSE s
                 v == DigitsValue(digits)
             IN  IF v < 0 THEN bad
                 ELSE IF max >= 0 /\ v > max THEN bad
                 ELSE [ok |-> TRUE, v |-> IF neg THEN 0 - v ELSE v]

-----------------------------------------------------------------------------
(* chrono: NaiveDate / NaiveTime parse_from_str, with_year *)

IsLeap(y) == (y % 4 = 0 /\ y % 100 # 0) \/ y % 400 = 0

DaysInMonth(y, m) ==
    IF m = 2 THEN (IF IsLeap(y) THEN 29 ELSE 28)
    ELSE IF m \in {4, 6, 9, 11} THEN 30
    ELSE 31

\* NaiveDate::from_ymd_opt: the date exists in the calendar.
DateExists(y, m, d) ==
    m >= 1 /\ m <= 12 /\ d >= 1 /\ d <= DaysInMonth(y, m)

\* The first n characters of t as a number, and what follows them.
TakeDigits(t, n) ==
    IF n = 0 THEN [ok |-> FALSE, v |-> 0, rest |-> <<>>]
    ELSE [ok |-> TRUE,
          v |-> DigitsValue(SubSeq(t, 1, n)),
          rest |-> SubSeq(t, n + 1, Len(t))]

\* One or two digits at the start of t, as many as there are.
ScanDigits(t) ==
    TakeDigits(t, IF t # <<>> /\ IsDigit(t[1])
                  THEN (IF Len(t) >= 2 /\ IsDigit(t[2]) THEN 2 ELSE 1)
                  ELSE 0)

\* A numeric item of width 2 (%d %m %y %H %M %S): leading whitespace is
\* skipped, then one or two digits are taken.
ScanNumber(s) == ScanDigits(trim_start(s))

\* The literal item ".": the input must go on with it.
ScanDot(s) ==
    IF s # <<>> /\ s[1] = Ch.dot
    THEN [ok |-> TRUE, v |-> 0, rest |-> Tail(s)]
    ELSE [ok |-> FALSE, v |-> 0, rest |-> <<>>]

\* The items of "%d.%m.%y" and of "%H.%M.%S": "n" a numeric item, "." the
\* literal.
Items == <<"n", ".", "n", ".", "n">>

\* One item scanned after what st has scanned: st.vals are the numbers so
\* far, st.rest the input left; an item that does not match ends the scan.
ScanItem(item, st, r) ==
    IF ~st.ok \/ ~r.ok THEN [ok |-> FALSE, vals |-> <<>>, rest |-> <<>>]
    ELSE [ok |-> TRUE,
          vals |-> IF item = "n" THEN Append(st.vals, r.v) ELSE st.vals,
          rest |-> r.rest]

ScanNext(item, st) ==
    ScanItem(item, st, IF ~st.ok THEN [ok |-> FALSE, v |-> 0, rest |-> <<>>]
                       ELSE IF item = "n" THEN ScanNumber(st.rest)
                       ELSE ScanDot(st.rest))

\* format::parse over Items: every item must match, in order, and nothing
\* may be left over (TooLong).
ScanThree(s) ==
    LET St[k \in 0..Len(Items)] ==
            IF k = 0 THEN [ok |-> TRUE, vals |-> <<>>, rest |-> s]
            ELSE ScanNext(Items[k], St[k - 1])
    IN  St[Len(Items)]

Scanned(st) == st.ok /\ st.rest = <<>>

\* chrono resolves a year given by %y alone: 70..99 are 19YY, 0..69 20YY.
YearOfMod100(yy) == IF yy < 70 THEN 2000 + yy ELSE 1900 + yy

NoDate == [y |-> 0, m |-> 0, d |-> 0]

\* Parsed::to_naive_date: the day, month and year scanned must be a date of
\* the calendar.
ToNaiveDate(st) ==
    IF Scanned(st) /\ DateExists(YearOfMod100(st.vals[3]), st.vals[2], st.vals[1])
    THEN [ok |-> TRUE,
          date |-> [y |-> YearOfMod100(st.vals[3]), m |-> st.vals[2],
                    d |-> st.vals[1]]]
    ELSE [ok |-> FALSE, date |-> NoDate]

\* NaiveDate::parse_from_str(&s, "%d.%m.%y")
NaiveDate_parse(s) == ToNaiveDate(ScanThree(s))

\* NaiveDate::with_year: None when the day does not exist in that year.
with_year(date, y) ==
    IF DateExists(y, date.m, date.d)
    THEN [some |-> TRUE, date |-> [date EXCEPT !.y = y]]
    ELSE [some |-> FALSE, date |-> NoDate]

NoTime == [h |-> 0, mi |-> 0, s |-> 0, leap |-> FALSE]

\* Parsed::to_naive_time: hours to 23, minutes to 59, seconds to 60; second
\* 60 is a leap second, kept as second 59 with the leap flag.
ToNaiveTime(st) ==
    IF Scanned(st) /\ st.vals[1] <= 23 /\ st.vals[2] <= 59 /\ st.vals[3] <= 60
    THEN [ok |-> TRUE,
          time |-> [h |-> st.vals[1], mi |-> st.vals[2],
                    s |-> IF st.vals[3] = 60 THEN 59 ELSE st.vals[3],
                    leap |-> st.vals[3] = 60]]
    ELSE [ok |-> FALSE, time |-> NoTime]

\* NaiveTime::parse_from_str(&s, "%H.%M.%S")
NaiveTime_parse(s) == ToNaiveTime(ScanThree(s))

\* The year below which a parsed date is moved one century on.
ClipYear == 1985

\* The years a date before ClipYear is moved on by.
ClipShift == 100

\* The test is <=: 1985 itself is moved to 2085.
ClipDate_Inclusive(date) ==
    IF date.y <= ClipYear
    THEN with_year(date, date.y + ClipShift)
    ELSE [some |-> TRUE, date |-> date]

\* The date is moved on by one year less than a century.
ClipDate_Short(date) ==
    IF date.y < ClipYear
    THEN with_year(date, date.y + ClipShift - 1)
    ELSE [some |-> TRUE, date |-> date]

\* The if / else of parse_start_date: the clipping rule.
ClipDate(date) ==
    IF date.y < ClipYear
    THEN with_year(date, date.y + ClipShift)
    ELSE [some |-> TRUE, date |-> date]

\* The .unwrap() and Ok(date) of parse_start_date.
Unwrap(o) ==
    IF o.some THEN [kind |-> "Ok", date |-> o.date]
    ELSE [kind |-> "Panic", date |-> NoDate]

\* The ? of parse_start_date, and what follows it.
ClipParsed(r) ==
    IF ~r.ok THEN [kind |-> "Err", date |-> NoDate]
    ELSE Unwrap(ClipDate(r.date))

\* Reader::parse_start_date: Ok(date), Err(ParseError), or the panic of
\* the unwrap when the shifted date does not exist.
parse_start_date(s) == ClipParsed(NaiveDate_parse(s))

-----------------------------------------------------------------------------
(* The field readers.  Each is an operator of the file's bytes s and its   *)
(* position p, and gives how the reader ends (kind "Ok", an Err kind "Io" / *)
(* "Utf8" / "Header", or "Panic"), its value and the position it leaves.    *)

\* Read::read, not read_exact: at the end of the file the buffer keeps its
\* zeroes after the bytes that were left, and the call succeeds.
read_exact_Short(s, p, w) ==
    IF p + w <= Len(s)
    THEN [ok |-> TRUE, buf |-> SubSeq(s, p + 1, p + w), pos |-> p + w]
    ELSE [ok |-> TRUE,
          buf |-> SubSeq(s, p + 1, Len(s)) \o [i \in 1..(p + w - Len(s)) |-> 0],
          pos |-> Len(s)]

\* A read that meets the end of the file consumes nothing.
read_exact_Rewind(s, p, w) ==
    IF p + w <= Len(s)
    THEN [ok |-> TRUE, buf |-> SubSeq(s, p + 1, p + w), pos |-> p + w]
    ELSE [ok |-> FALSE, buf |-> <<>>, pos |-> p]

\* Read::read_exact on a File: the buffer is filled and the position moves
\* on by its length, or the file ends first: then what was left has been
\* consumed (the position is the end of the file) and the call is an
\* UnexpectedEof error.
read_exact(s, p, w) ==
    IF p + w <= Len(s)
    THEN [ok |-> TRUE, buf |-> SubSeq(s, p + 1, p + w), pos |-> p + w]
    ELSE [ok |-> FALSE, buf |-> <<>>, pos |-> Len(s)]

\* How a parse of a field's text ends.
Ok(v) == [kind |-> "Ok", detail |-> "", v |-> v]
Panic(msg) == [kind |-> "Panic", detail |-> msg, v |-> <<>>]

\* How a reader ends, and where it leaves the file.
Ret(x, p) == [kind |-> x.kind, detail |-> x.detail, v |-> x.v, pos |-> p]

\* impl From<io::Error> for Error
IoErr == [kind |-> "Io", detail |-> "UnexpectedEof", v |-> <<>>]

\* impl From<str::Utf8Error> for Error
Utf8Err == [kind |-> "Utf8", detail |-> "Utf8Error", v |-> <<>>]

\* Error::new(ErrorKind::Header(HeaderError::Version)); HeaderError has the
\* one variant InvalidVersion.
VersionErr == [kind |-> "Header", detail |-> "InvalidVersion", v |-> <<>>]

\* Bytes 2..7 only: the loop over the trailing bytes stops one short.
CheckVersion_OneShort(buf) ==
    IF buf[1] # 48 THEN VersionErr
    ELSE IF \E i \in 2..7 : buf[i] # 32 THEN VersionErr
    ELSE Ok(<<>>)

\* The two checks of read_version on the buffer read.
CheckVersion(buf) ==
    IF buf[1] # 48 THEN VersionErr
    ELSE IF \E i \in 2..8 : buf[i] # 32 THEN VersionErr
    ELSE Ok(<<>>)

\* f.read_exact(&mut buffer)? of read_version, and the checks.
VersionOfRead(r) ==
    IF ~r.ok THEN Ret(IoErr, r.pos) ELSE Ret(CheckVersion(r.buf), r.pos)

\* Reader::read_version
read_version(s, p) == VersionOfRead(read_exact(s, p, 8))

\* String::from_utf8(buffer.to_vec())? and Ok(s): the String returned holds
\* the bytes read as they are.
TextOfStr(u, buf) == IF ~u.ok THEN Utf8Err ELSE Ok(buf)

\* f.read_exact(&mut buffer)? of read_patient_info, read_recording_id and
\* read_reserved, and what follows it.
TextOfRead(r) ==
    IF ~r.ok THEN Ret(IoErr, r.pos)
    ELSE Ret(TextOfStr(from_utf8(r.buf), r.buf), r.pos)

\* Reader::read_patient_info
read_patient_info(s, p) == TextOfRead(read_exact(s, p, 80))

\* Reader::read_recording_id
read_recording_id(s, p) == TextOfRead(read_exact(s, p, 80))

\* Reader::read_reserved
read_reserved(s, p) == TextOfRead(read_exact(s, p, 44))

\* .expect("Invalid start time") on the result of parse_start_date, whose
\* own unwrap may have panicked before.
ExpectDate(d) ==
    IF d.kind = "Panic" THEN Panic("called Option::unwrap() on a None value")
    ELSE IF d.kind = "Err" THEN Panic("Invalid start time")
    ELSE Ok(d.date)

\* The decoding error is dropped, as unwrap_or_default would: the text of
\* bytes that are not UTF-8 is empty, and it goes on to the date parser.
StartDateOfStr_Lossy(u) == ExpectDate(parse_start_date(u.chars))

\* String::from_utf8(buffer.to_vec())? of read_start_date, then the parse.
StartDateOfStr(u) ==
    IF ~u.ok THEN Utf8Err ELSE ExpectDate(parse_start_date(u.chars))

StartDateOfRead(r) ==
    IF ~r.ok THEN Ret(IoErr, r.pos)
    ELSE Ret(StartDateOfStr(from_utf8(r.buf)), r.pos)

\* Reader::read_start_date
read_start_date(s, p) == StartDateOfRead(read_exact(s, p, 8))

ExpectTime(t) == IF ~t.ok THEN Panic("Invalid start time") ELSE Ok(t.time)

\* String::from_utf8(buffer.to_vec())? of read_start_time, then the parse.
StartTimeOfStr(u) ==
    IF ~u.ok THEN Utf8Err ELSE ExpectTime(NaiveTime_parse(u.chars))

StartTimeOfRead(r) ==
    IF ~r.ok THEN Ret(IoErr, r.pos)
    ELSE Ret(StartTimeOfStr(from_utf8(r.buf)), r.pos)

\* Reader::read_start_time
read_start_time(s, p) == StartTimeOfRead(read_exact(s, p, 8))

\* .expect(msg) on the result of str::parse
Expect(n, msg) == IF ~n.ok THEN Panic(msg) ELSE Ok(n.v)

\* String::from_utf8(buffer.to_vec())? of read_header_size, then
\* s.trim_end().parse().expect(..) for usize.
HeaderSizeOfStr(u) ==
    IF ~u.ok THEN Utf8Err
    ELSE Expect(ParseInt(trim_end(u.chars), FALSE, -1),
                "Could not parse header size")

HeaderSizeOfRead(r) ==
    IF ~r.ok THEN Ret(IoErr, r.pos)
    ELSE Ret(HeaderSizeOfStr(from_utf8(r.buf)), r.pos)

\* Reader::read_header_size
read_header_size(s, p) == HeaderSizeOfRead(read_exact(s, p, 8))

None == [some |-> FALSE, v |-> 0]
Some(v) == [some |-> TRUE, v |-> v]

\* The second test is n >= 0: zero records pass as Some(0).
RecordsLenOfInt_ZeroOk(n) ==
    IF n = -1 THEN Ok(None)
    ELSE IF n >= 0 THEN Ok(Some(n))
    ELSE Panic("Record length cannot be negative")

\* The if / else if / else of read_records_len on the parsed isize.
RecordsLenOfInt(n) ==
    IF n = -1 THEN Ok(None)
    ELSE IF n > 0 THEN Ok(Some(n))
    ELSE Panic("Record length cannot be negative")

\* .expect("Could not parse number of records"), then the checks.
ExpectRecords(n) ==
    IF ~n.ok THEN Panic("Could not parse number of records")
    ELSE RecordsLenOfInt(n.v)

\* String::from_utf8(buffer.to_vec())? of read_records_len, then
\* s.trim_end().parse::<isize>().
RecordsLenOfStr(u) ==
    IF ~u.ok THEN Utf8Err
    ELSE ExpectRecords(ParseInt(trim_end(u.chars), TRUE, -1))

RecordsLenOfRead(r) ==
    IF ~r.ok THEN Ret(IoErr, r.pos)
    ELSE Ret(RecordsLenOfStr(from_utf8(r.buf)), r.pos)

\* Reader::read_records_len
read_records_len(s, p) == RecordsLenOfRead(read_exact(s, p, 8))

\* The index of the first '.' of t, 0 when it has none.
FirstDot(t) ==
    IF \E i \in 1..Len(t) : t[i] = Ch.dot
    THEN CHOOSE i \in 1..Len(t) :
            t[i] = Ch.dot /\ \A j \in 1..(i - 1) : t[j] # Ch.dot
    ELSE 0

\* Some((characteristic, mantissa)), cut at the k-th character, or None.
SplitAt(t, k) ==
    IF k = 0 THEN [some |-> FALSE, characteristic |-> <<>>, mantissa |-> <<>>]
    ELSE [some |-> TRUE,
          characteristic |-> SubSeq(t, 1, k - 1),
          mantissa |-> SubSeq(t, k + 1, Len(t))]

\* str::split_once(".")
split_once(t) == SplitAt(t, FirstDot(t))

\* Every mantissa that parses passes: the duration is cut to its integer
\* part.
MatchMantissa_Truncate(characteristic, m) ==
    IF ~m.ok THEN Panic("Could not parse mantissa of duration")
    ELSE Ok(characteristic)

\* The inner matches of read_duration on mantissa.parse::<u8>(): the text
\* that goes on to .parse(), or a panic.
MatchMantissa(characteristic, m) ==
    IF ~m.ok THEN Panic("Could not parse mantissa of duration")
    ELSE IF m.v = 0 THEN Ok(characteristic)
    ELSE Panic("Unimplemented parsing of float durations")

\* match split { None => s, Some((characteristic, mantissa)) => ... }
MatchSplit(t, split) ==
    IF ~split.some THEN Ok(t)
    ELSE MatchMantissa(split.characteristic, ParseInt(split.mantissa, FALSE, 255))

\* .parse().expect("Could not parse duration") on the text matched.
ParseDuration(x) ==
    IF x.kind # "Ok" THEN x
    ELSE Expect(ParseInt(x.v, FALSE, -1), "Could not parse duration")

\* The let n = match ... of read_duration on the trimmed text.
DurationOfTrimmed(t) == ParseDuration(MatchSplit(t, split_once(t)))

\* String::from_utf8(buffer.to_vec())? of read_duration, then s.trim_end().
DurationOfStr(u) ==
    IF ~u.ok THEN Utf8Err ELSE DurationOfTrimmed(trim_end(u.chars))

DurationOfRead(r) ==
    IF ~r.ok THEN Ret(IoErr, r.pos)
    ELSE Ret(DurationOfStr(from_utf8(r.buf)), r.pos)

\* Reader::read_duration
read_duration(s, p) == DurationOfRead(read_exact(s, p, 8))

\* String::from_utf8(buffer.to_vec())? of read_signals_len, then
\* s.trim_end().parse().expect(..) for u32.
SignalsLenOfStr(u) ==
    IF ~u.ok THEN Utf8Err
    ELSE Expect(ParseInt(trim_end(u.chars), FALSE, -1),
                "Could not parse number of signals")

SignalsLenOfRead(r) ==
    IF ~r.ok THEN Ret(IoErr, r.pos)
    ELSE Ret(SignalsLenOfStr(from_utf8(r.buf)), r.pos)

\* Reader::read_signals_len
read_signals_len(s, p) == SignalsLenOfRead(read_exact(s, p, 4))

\* Header::new on the values read_header has bound: the date and the time
\* become start_datetime, the other arguments are stored as they are.
Header_new(l) ==
    [patient_info |-> l.patient_info,
     recording_id |-> l.recording_id,
     start_datetime |-> [date |-> l.start_date, time |-> l.start_time],
     size |-> l.size,
     reserved |-> l.reserved,
     records_len |-> l.records_len,
     duration |-> l.duration,
     signals_len |-> l.signals_len]

-----------------------------------------------------------------------------
(* The files the reader is run on *)

\* Bounds of the model.
MaxDeviations == 2   \* fields of a file that differ from the base header
MaxPartial == 1      \* bytes of a field a truncated file may still hold
MaxExtra == 1        \* bytes a file may hold after the header
MaxDay == 32         \* the days 28..MaxDay (and 0, 1) appear in date texts
MaxMonth == 13       \* the months 0..MaxMonth appear in date texts
MaxNum == 12         \* the numbers -MaxNum..MaxNum appear in numeric texts

\* The fields in the order read_header reads them, and their widths.
Fields == <<"version", "patient_info", "recording_id", "start_date",
            "start_time", "size", "reserved", "records_len", "duration",
            "signals_len">>

Width == <<8, 80, 80, 8, 8, 8, 44, 8, 8, 4>>

\* The widths of the first n fields, added up.
WidthSum[n \in 0..Len(Width)] == IF n = 0 THEN 0 ELSE WidthSum[n - 1] + Width[n]

\* The offset of the i-th field: the widths before it, added up.
Offset(i) == WidthSum[i - 1]

HeaderWidth == WidthSum[Len(Width)]

\* A text, padded with spaces to the width w of its field.
Pad(s, w) == s \o [i \in 1..(w - Len(s)) |-> 32]

\* The decimal digits of n >= 0.
Digits(n) ==
    LET D[k \in 0..n] ==
            IF k < 10 THEN <<48 + k>> ELSE Append(D[k \div 10], 48 + (k % 10))
    IN  D[n]

TwoDigits(n) == <<48 + ((n \div 10) % 10), 48 + (n % 10)>>

\* The text of the integer n, as a file states it.
IntText(n) == IF n < 0 THEN <<45>> \o Digits(0 - n) ELSE Digits(n)

\* DD.MM.YY
DateText(d, m, y) == TwoDigits(d) \o <<46>> \o TwoDigits(m) \o <<46>> \o TwoDigits(y)

\* The header every file of the model starts from: PAT1, REC1, 02.03.95,
\* 10.00.00, 256, -1, 1, 4.
BaseFields ==
    << Pad(<<48>>, 8),
       Pad(<<80, 65, 84, 49>>, 80),
       Pad(<<82, 69, 67, 49>>, 80),
       <<48, 50, 46, 48, 51, 46, 57, 53>>,
       <<49, 48, 46, 48, 48, 46, 48, 48>>,
       Pad(<<50, 53, 54>>, 8),
       Pad(<<>>, 44),
       Pad(<<45, 49>>, 8),
       Pad(<<49>>, 8),
       Pad(<<52>>, 4) >>

\* What a field may hold instead, combined up to MaxDeviations at a time:
\* rejected texts, bytes that are not UTF-8, and other accepted texts.
Alternatives(i) ==
    CASE i = 1 -> { Pad(<<49>>, 8) }                          \* "1"
      [] i = 2 -> { Pad(<<195, 169>>, 80),                    \* e acute
                    Pad(<<255>>, 80) }
      [] i = 3 -> { Pad(<<>>, 79) \o <<195>> }                \* cut sequence
      [] i = 4 -> { <<48, 50, 45, 48, 51, 45, 57, 53>>,       \* 02-03-95
                    <<48, 50, 46, 48, 51, 46, 57, 255>> }
      [] i = 5 -> { <<50, 51, 46, 53, 57, 46, 54, 48>>,       \* 23.59.60
                    <<50, 52, 46, 48, 48, 46, 48, 48>>,       \* 24.00.00
                    <<49, 48, 46, 48, 48, 46, 48, 128>> }
      [] i = 6 -> { Pad(<<97, 98, 99>>, 8),                   \* abc
                    Pad(<<50, 53, 54, 192>>, 8) }
      [] i = 7 -> { Pad(<<237, 160, 128>>, 44) }              \* a surrogate
      [] i = 8 -> { Pad(<<48>>, 8),                           \* 0
                    Pad(<<45, 49, 255>>, 8) }
      [] i = 9 -> { Pad(<<49, 46, 53>>, 8),                   \* 1.5
                    Pad(<<49, 46, 48, 254>>, 8) }
      [] OTHER -> { Pad(<<97, 98, 99>>, 4),                   \* abc
                    Pad(<<52, 245>>, 4) }

\* The headers of S, and those with one field of one of them replaced.
DeviateOnce(S) ==
    S \cup UNION { { [c EXCEPT ![i] = a] : c \in S, a \in Alternatives(i) } :
                   i \in 1..Len(Fields) }

\* The headers that differ from the base header in at most k fields.
Deviate(k) ==
    LET D[n \in 0..k] == IF n = 0 THEN {BaseFields} ELSE DeviateOnce(D[n - 1])
    IN  D[k]

\* The fields of c one after the other.
Flatten(c) ==
    LET F[n \in 0..Len(c)] == IF n = 0 THEN <<>> ELSE F[n - 1] \o c[n]
    IN  F[Len(c)]

\* The lengths of the files: cut at a field's start, up to MaxPartial bytes
\* into it, one byte before its end; whole; with bytes after the header.
FileLengths ==
    { Offset(i) + k : i \in 1..Len(Fields), k \in 0..MaxPartial }
    \cup { Offset(i) + Width[i] - 1 : i \in 1..Len(Fields) }
    \cup { HeaderWidth + k : k \in 0..MaxExtra }

\* The file of n bytes that starts as flat does, and goes on with spaces.
Resize(flat, n) ==
    IF n <= Len(flat) THEN SubSeq(flat, 1, n)
    ELSE flat \o [i \in 1..(n - Len(flat)) |-> 32]

\* Version fields: every 8 bytes of '0', ' ' and NUL.
VersionTexts == [1..8 -> {48, 32, 0}]

\* Date fields: DD.MM.YY over all two-digit years, and texts that are not
\* of that shape.
DateTexts ==
    { DateText(d, m, y) : d \in {0, 1} \cup 28..MaxDay, m \in 0..MaxMonth,
                          y \in 0..99 }
    \cup { << 32, 49, 46, 48, 50, 46, 56, 53>>,      \* " 1.02.85"
           << 49, 46, 32, 50, 46, 32, 32, 51>>,      \* "1. 2.  3"
           << 48, 49, 46, 48, 50, 46, 56, 32>>,      \* "01.02.8 "
           << 49, 46, 50, 46, 56, 52, 32, 32>>,      \* "1.2.84  "
           << 49, 46, 50, 46, 49, 57, 56, 53>>,      \* "1.2.1985"
           << 48, 49, 47, 48, 50, 47, 56, 53>> }     \* "01/02/85"

\* records_len fields: the integers around zero, and other texts.
RecordsTexts ==
    { Pad(IntText(n), 8) : n \in (0 - MaxNum)..MaxNum }
    \cup { Pad(<<43, 53>>, 8),                        \* "+5"
           Pad(<<45, 48>>, 8),                        \* "-0"
           Pad(<<45>>, 8),                            \* "-"
           Pad(<<45, 45, 49>>, 8),                    \* "--1"
           Pad(<<49, 32, 53>>, 8),                    \* "1 5"
           Pad(<<32, 53>>, 8),                        \* " 5"
           Pad(<<45, 49, 46, 48>>, 8),                \* "-1.0"
           Pad(<<45, 49, 9>>, 8),                     \* "-1" and a tab
           Pad(<<>>, 8),
           <<57, 57, 57, 57, 57, 57, 57, 57>>,        \* 99999999
           <<45, 57, 57, 57, 57, 57, 57, 57>> }       \* -9999999

\* The texts after the decimal point of a duration field.
FractionTexts ==
    { <<>>, <<48>>, <<48, 48>>, <<48, 48, 48, 48, 48, 48>>, <<53>>,
      <<48, 53>>, <<53, 48>>, <<50, 53, 53>>, <<50, 53, 54>>, <<43, 48>>,
      <<45, 48>>, <<48, 46, 53>>, <<48, 46, 48>>, <<48, 32, 53>>, <<120>> }

\* duration fields: an integer, or an integer, '.' and a fraction text, and
\* other texts.
DurationTexts ==
    { Pad(IntText(n), 8) : n \in 0..MaxNum }
    \cup { Pad(t, 8) : t \in { u \in { IntText(n) \o <<46>> \o f :
                                          n \in 0..MaxNum, f \in FractionTexts } :
                                  Len(u) <= 8 } }
    \cup { Pad(<<46, 48>>, 8),                        \* ".0"
           Pad(<<45, 49>>, 8),                        \* "-1"
           Pad(<<45, 49, 46, 48>>, 8),                \* "-1.0"
           Pad(<<43, 49, 46, 48>>, 8),                \* "+1.0"
           Pad(<<49, 44, 53>>, 8),                    \* "1,5"
           Pad(<<>>, 8) }

\* The files with one field out of a larger set of texts.
ExtendedHeaders ==
    { [BaseFields EXCEPT ![1] = t] : t \in VersionTexts }
    \cup { [BaseFields EXCEPT ![4] = t] : t \in DateTexts }
    \cup { [BaseFields EXCEPT ![8] = t] : t \in RecordsTexts }
    \cup { [BaseFields EXCEPT ![9] = t] : t \in DurationTexts }

Files ==
    { Resize(flat, n) : flat \in { Flatten(c) : c \in Deviate(MaxDeviations) },
                        n \in FileLengths }
    \cup { Flatten(c) : c \in ExtendedHeaders }

-----------------------------------------------------------------------------
(* Reader::read_header *)

NoOutcome == [kind |-> "none", detail |-> "", at |-> ""]

Init ==
    /\ stream \in Files
    /\ pos = 0
    /\ pc = "version"
    /\ locals = <<>>
    /\ header = <<>>
    /\ outcome = NoOutcome
    /\ reads = <<>>

\* The failure of a reader is dropped and read_header goes on to the next
\* line.
Step_Swallow(field, next, r) ==
    /\ pc = field
    /\ reads' = Append(reads, <<pos, r.pos>>)
    /\ pos' = r.pos
    /\ pc' = next
    /\ locals' = IF field = "version" THEN locals ELSE (field :> r.v) @@ locals
    /\ UNCHANGED <<stream, header, outcome>>

\* One line of read_header, `let field = Reader::read_field(f)?;`: the
\* reader runs on the file where it stands; Ok binds the value and goes on
\* to the next line, Err returns it from read_header, a panic unwinds.
Step(field, next, r) ==
    /\ pc = field
    /\ reads' = Append(reads, <<pos, r.pos>>)
    /\ pos' = r.pos
    /\ IF r.kind = "Ok"
       THEN /\ pc' = next
            /\ locals' = IF field = "version" THEN locals
                         ELSE (field :> r.v) @@ locals
            /\ UNCHANGED outcome
       ELSE /\ pc' = "failed"
            /\ outcome' = [kind |-> r.kind, detail |-> r.detail, at |-> field]
            /\ UNCHANGED locals
    /\ UNCHANGED <<stream, header>>

ReadVersion == Step("version", "patient_info", read_version(stream, pos))

ReadPatientInfo ==
    Step("patient_info", "recording_id", read_patient_info(stream, pos))

ReadRecordingId ==
    Step("recording_id", "start_date", read_recording_id(stream, pos))

ReadStartDate == Step("start_date", "start_time", read_start_date(stream, pos))

ReadStartTime == Step("start_time", "size", read_start_time(stream, pos))

ReadHeaderSize == Step("size", "reserved", read_header_size(stream, pos))

ReadReserved == Step("reserved", "records_len", read_reserved(stream, pos))

ReadRecordsLen == Step("records_len", "duration", read_records_len(stream, pos))

ReadDuration == Step("duration", "signals_len", read_duration(stream, pos))

ReadSignalsLen == Step("signals_len", "new", read_signals_len(stream, pos))

\* Ok(Header::new(...)): the last line of read_header.
ReturnHeader ==
    /\ pc = "new"
    /\ header' = << Header_new(locals) >>
    /\ outcome' = [kind |-> "Ok", detail |-> "", at |-> ""]
    /\ pc' = "done"
    /\ UNCHANGED <<stream, pos, locals, reads>>

Next ==
    \/ ReadVersion
    \/ ReadPatientInfo
    \/ ReadRecordingId
    \/ ReadStartDate
    \/ ReadStartTime
    \/ ReadHeaderSize
    \/ ReadReserved
    \/ ReadRecordsLen
    \/ ReadDuration
    \/ ReadSignalsLen
    \/ ReturnHeader

Spec == Init /\ [][Next]_vars

-----------------------------------------------------------------------------
(* What the claims speak of *)

\* The i-th reader has run.
Taken(i) == Len(reads) >= i

\* The parse ended at the i-th field, in the way kind.
FailedAt(i, kind) ==
    pc = "failed" /\ outcome.at = Fields[i] /\ outcome.kind = kind

\* The i-th reader has run and returned Ok.
Accepted(i) == Taken(i) /\ ~(pc = "failed" /\ outcome.at = Fields[i])

\* The file holds all the bytes of the i-th field.
Present(i) == Len(stream) >= Offset(i) + Width[i]

\* The bytes of the i-th field.
FieldBytes(i) == SubSeq(stream, Offset(i) + 1, Offset(i) + Width[i])

\* The number two digit bytes state.
TwoDigitValue(b, i) == (b[i] - 48) * 10 + (b[i + 1] - 48)

\* The bytes b are of the shape DD.MM.YY.
IsDateShape(b) ==
    /\ \A i \in {1, 2, 4, 5, 7, 8} : b[i] >= 48 /\ b[i] <= 57
    /\ b[3] = 46
    /\ b[6] = 46

\* The year the 1985 clipping rule gives the two-digit year yy.
ClippedYear(yy) == IF yy >= 85 THEN 1900 + yy ELSE 2000 + yy

\* The date the clipping rule gives the text b of shape DD.MM.YY.
ClippedDate(b) ==
    [y |-> ClippedYear(TwoDigitValue(b, 7)), m |-> TwoDigitValue(b, 4),
     d |-> TwoDigitValue(b, 1)]

\* The day of the month exists in the Gregorian calendar.
InCalendar(date) ==
    /\ date.m \in 1..12
    /\ date.d >= 1
    /\ date.d <= CASE date.m \in {1, 3, 5, 7, 8, 10, 12} -> 31
                   [] date.m \in {4, 6, 9, 11} -> 30
                   [] OTHER -> IF date.y % 4 = 0 /\ (date.y % 100 # 0 \/ date.y % 400 = 0)
                               THEN 29 ELSE 28

\* C1: a start_date field of the shape DD.MM.YY that states a date of the
\* calendar is accepted, and the date returned has the day and the month of
\* the text and the year 1900+YY when YY >= 85, 2000+YY when YY < 85; a text
\* of that shape that states no date is rejected.
C1_ClippingRule ==
    (Taken(4) /\ Present(4) /\ IsDateShape(FieldBytes(4))) =>
        IF InCalendar(ClippedDate(FieldBytes(4)))
        THEN Accepted(4) /\ locals.start_date = ClippedDate(FieldBytes(4))
        ELSE FailedAt(4, "Panic")

\* 31.12.84 was read as the last day of 2084.
C1_Witness ==
    /\ pc = "start_time"
    /\ FieldBytes(4) = DateText(31, 12, 84)
    /\ locals.start_date = [y |-> 2084, m |-> 12, d |-> 31]

\* The integer the records_len field states is n.
RecordsFieldIs(n) == Present(8) /\ FieldBytes(8) = Pad(IntText(n), 8)

\* C2: read_records_len maps the integer n of its field to None when n = -1
\* and to Some(n) when n > 0, and fails fatally for every other n; the
\* records_len of a Header is None or Some(v) with v > 0.
C2_RecordsLen ==
    /\ Taken(8) =>
          \A n \in (0 - MaxNum)..MaxNum :
              RecordsFieldIs(n) =>
                  IF n = -1 THEN Accepted(8) /\ locals.records_len = None
                  ELSE IF n > 0 THEN Accepted(8) /\ locals.records_len = Some(n)
                  ELSE FailedAt(8, "Panic")
    /\ header # <<>> =>
          \/ header[1].records_len = None
          \/ header[1].records_len.some /\ header[1].records_len.v > 0

\* A records_len field of 0 ended the parse.
C2_Witness ==
    /\ RecordsFieldIs(0)
    /\ FailedAt(8, "Panic")
    /\ outcome.detail = "Record length cannot be negative"

\* The text f, after the decimal point, is zero as an unsigned integer: one
\* or more '0', after an optional '+'.
IsZeroFraction(f) ==
    \/ f # <<>> /\ \A i \in 1..Len(f) : f[i] = 48
    \/ Len(f) >= 2 /\ f[1] = 43 /\ \A i \in 2..Len(f) : f[i] = 48

\* The duration field states the integer n, a decimal point and f.
DurationFieldIs(n, f) ==
    /\ Len(IntText(n)) + 1 + Len(f) <= 8
    /\ Present(9)
    /\ FieldBytes(9) = Pad(IntText(n) \o <<46>> \o f, 8)

\* C3: read_duration returns n for the field that states the unsigned
\* integer n, and for n followed by '.' and a fraction that is zero; for
\* every other fraction the parse fails fatally, and no duration is
\* returned.
C3_Duration ==
    Taken(9) =>
        \A n \in 0..MaxNum :
            /\ (Present(9) /\ FieldBytes(9) = Pad(IntText(n), 8)) =>
                  Accepted(9) /\ locals.duration = n
            /\ \A f \in FractionTexts :
                  DurationFieldIs(n, f) =>
                      IF IsZeroFraction(f)
                      THEN Accepted(9) /\ locals.duration = n
                      ELSE FailedAt(9, "Panic")

\* A duration field of 1.5 ended the parse.
C3_Witness ==
    /\ DurationFieldIs(1, <<53>>)
    /\ FailedAt(9, "Panic")
    /\ outcome.detail = "Unimplemented parsing of float durations"

\* C4: when the file holds the 8 bytes of the version, read_version accepts
\* them if and only if the first is '0' and the other seven are spaces, and
\* otherwise the parse ends with the Header error InvalidVersion.
C4_Version ==
    (Taken(1) /\ Present(1)) =>
        IF stream[1] = 48 /\ \A i \in 2..8 : stream[i] = 32
        THEN Accepted(1)
        ELSE FailedAt(1, "Header") /\ outcome.detail = "InvalidVersion"

\* A version whose last byte alone is no space was rejected.
C4_Witness ==
    /\ Len(stream) = HeaderWidth
    /\ stream[1] = 48
    /\ \A i \in 2..7 : stream[i] = 32
    /\ stream[8] = 0
    /\ FailedAt(1, "Header")

\* The first field the file does not hold all the bytes of.
FirstShort ==
    CHOOSE k \in 1..Len(Fields) : ~Present(k) /\ \A j \in 1..(k - 1) : Present(j)

\* C5 as stated: a parse of a file shorter than the header ends with an I/O
\* error at the first field whose read cannot be satisfied.
C5_Original ==
    (Len(stream) < HeaderWidth /\ pc \in {"failed", "done"}) =>
        FailedAt(FirstShort, "Io")

\* C5, amended: a file shorter than the header never yields a Header, and no
\* field after the first one whose read cannot be satisfied is read; that
\* read, when the parse comes to it, fails with an I/O error, and a parse
\* that does not come to it has ended at a field before it, with a failure
\* that is no I/O error.
C5_Truncated ==
    Len(stream) < HeaderWidth =>
        /\ pc \notin {"new", "done"}
        /\ header = <<>>
        /\ ~Taken(FirstShort + 1)
        /\ Taken(FirstShort) => FailedAt(FirstShort, "Io")
        /\ (pc = "failed" /\ ~Taken(FirstShort)) =>
              /\ outcome.kind # "Io"
              /\ \E j \in 1..(FirstShort - 1) : outcome.at = Fields[j]

\* A file that ends one byte before the end of recording_id failed there.
C5_Witness ==
    /\ Len(stream) = 167
    /\ FailedAt(3, "Io")
    /\ outcome.detail = "UnexpectedEof"

\* The i-th reader of read_header, run where its field starts.
ReaderAt(i) ==
    CASE i = 1 -> read_version(stream, Offset(1))
      [] i = 2 -> read_patient_info(stream, Offset(2))
      [] i = 3 -> read_recording_id(stream, Offset(3))
      [] i = 4 -> read_start_date(stream, Offset(4))
      [] i = 5 -> read_start_time(stream, Offset(5))
      [] i = 6 -> read_header_size(stream, Offset(6))
      [] i = 7 -> read_reserved(stream, Offset(7))
      [] i = 8 -> read_records_len(stream, Offset(8))
      [] i = 9 -> read_duration(stream, Offset(9))
      [] OTHER -> read_signals_len(stream, Offset(10))

\* The readers of the fields before the k-th, each run on its own, return
\* Ok.
OkBefore(k) == \A i \in 1..(k - 1) : ReaderAt(i).kind = "Ok"

\* The failure r of a reader is how the parse ended.
IsOutcome(r) ==
    r.kind # "Ok" /\ outcome.kind = r.kind /\ outcome.detail = r.detail

\* C6: the fields are read in the order of Fields, and a parse that is at
\* the j-th field has read and accepted the j-1 before it; a failed parse
\* ended at the first field, in that order, whose reader fails, with that
\* reader's failure, and read no field after it; a Header exists only once
\* all ten fields were read and accepted.
C6_Linear ==
    /\ \A j \in 1..Len(Fields) :
          pc = Fields[j] => Len(reads) = j - 1 /\ OkBefore(j)
    /\ pc = "failed" =>
          /\ Len(reads) \in 1..Len(Fields)
          /\ outcome.at = Fields[Len(reads)]
          /\ OkBefore(Len(reads))
          /\ IsOutcome(ReaderAt(Len(reads)))
    /\ pc \in {"new", "done"} =>
          Len(reads) = Len(Fields) /\ OkBefore(Len(Fields) + 1)
    /\ header # <<>> <=> pc = "done"

\* A parse ended at start_time and left the bad records_len after it unread.
C6_Witness ==
    /\ FailedAt(5, "Panic")
    /\ Len(reads) = 5
    /\ ReaderAt(8).kind = "Panic"

\* The reads that were satisfied: the position moved on by the field's width.
Satisfied == { i \in 1..Len(reads) : reads[i][2] = reads[i][1] + Width[i] }

\* C7 as stated: the position is the sum of the widths of the fields
\* consumed.
C7_Original == pos = WidthSum[Cardinality(Satisfied)]

\* What C7, amended, says of a state.
C7_Positions ==
    /\ pos = IF reads = <<>> THEN 0 ELSE reads[Len(reads)][2]
    /\ \A i \in 1..Len(reads) :
          /\ reads[i][1] = Offset(i)
          /\ \/ reads[i][2] = Offset(i) + Width[i]
             \/ /\ i = Len(reads)
                /\ FailedAt(i, "Io")
                /\ reads[i][2] = Len(stream)
                /\ reads[i][2] >= reads[i][1]
    /\ pc = "done" => pos = 256

\* C7, amended: every field is read from the sum of the widths before it,
\* and the position moves on by the width of every field whose read is
\* satisfied; a read that meets the end of the file consumes what was left,
\* so that the position is then the length of the file.  The position never
\* moves backwards, the file is never written, and after a successful parse
\* the position is 256.
C7_Cursor ==
    /\ []C7_Positions
    /\ [][pos' >= pos /\ stream' = stream]_vars

\* A file of 89 bytes was left at its end, one byte into recording_id.
C7_Witness ==
    /\ Len(stream) = 89
    /\ FailedAt(3, "Io")
    /\ pos = 89
    /\ Satisfied = {1, 2}

\* C8: every failure of the parse reaches the caller as an error, of kind
\* Io, Utf8 or Header.
C8_ErrorsReturned ==
    pc = "failed" => outcome.kind \in {"Io", "Utf8", "Header"}

\* C9: a text field whose bytes are not UTF-8 ends the parse with an
\* encoding error at that field, whatever else its text would be; the
\* patient_info, recording_id and reserved of a Header are the 80, 80 and 44
\* bytes read, and are UTF-8.
C9_Encoding ==
    /\ \A i \in 2..Len(Fields) :
          (Taken(i) /\ Present(i) /\ ~IsUtf8(FieldBytes(i))) => FailedAt(i, "Utf8")
    /\ header # <<>> =>
          /\ header[1].patient_info = FieldBytes(2)
          /\ header[1].recording_id = FieldBytes(3)
          /\ header[1].reserved = FieldBytes(7)
          /\ Len(header[1].patient_info) = 80
          /\ Len(header[1].recording_id) = 80
          /\ Len(header[1].reserved) = 44
          /\ \A i \in {2, 3, 7} : IsUtf8(FieldBytes(i))

\* A start_date that ends in the byte 255 ended the parse with Utf8.
C9_Witness ==
    /\ Present(4)
    /\ FieldBytes(4)[8] = 255
    /\ FailedAt(4, "Utf8")

\* C10: the unwrap of parse_start_date never panics; every date accepted,
\* and the start_datetime of every Header, is a date of the calendar with a
\* year in 1985..2084.
C10_ClipNeverFails ==
    /\ outcome.detail # "called Option::unwrap() on a None value"
    /\ Accepted(4) =>
          locals.start_date.y \in 1985..2084 /\ InCalendar(locals.start_date)
    /\ header # <<>> =>
          /\ header[1].start_datetime.date.y \in 1985..2084
          /\ InCalendar(header[1].start_datetime.date)

\* 29.02.72 became the 29th of February 2072 of a Header.
C10_Witness ==
    /\ header # <<>>
    /\ FieldBytes(4) = DateText(29, 2, 72)
    /\ header[1].start_datetime.date = [y |-> 2072, m |-> 2, d |-> 29]

=============================================================================
